---- MODULE Spec2Model ----
(***************************************************************************)
(* POS printer bridge: the startup of the process (init_printer, then      *)
(* uvicorn.run) and the HTTP handlers of src/src/main.py, each handler cut *)
(* at its calls on the process-wide PRINTER handle.  The handlers with a   *)
(* plain `def` run on the server's thread pool, so the steps of different  *)
(* requests interleave freely; nothing in the source locks the handle.     *)
(*                                                                         *)
(* The escpos handle is an external collaborator: every call on it either  *)
(* returns or raises, and which of the two is a free choice of the model.  *)
(***************************************************************************)
EXTENDS Integers, Sequences, FiniteSets, TLC

\* ---- bounds -------------------------------------------------------------
MaxCopies == 2          \* largest `copies` a request asks for

\* ---- customtypes.py -----------------------------------------------------
Alignments == {"left", "center", "right"}

\* ---- the environment the process starts in ------------------------------
\* "unset" stands for a variable that is not in the environment.
EnvPrinterTypes == {"network", "bluetooth", "unset"}
EnvAlignments == {"unset", "center", "justify"}
\* every value of PRINTER_TYPE told apart by init_printer, for the runs that
\* look at the startup alone
StartupPrinterTypes == EnvPrinterTypes \cup {"usb", "serial"}
\* PRINTER_BOLD, PRINTER_INVERSE, PRINTER_FLIP, PRINTER_DOUBLE_HEIGHT and
\* PRINTER_DOUBLE_WIDTH ("": the variable is set to the empty string)
EnvFlags == {"unset", "False", "True", ""}

Environments(types, flags) ==
    [PRINTER_TYPE : types, PRINTER_ALIGNMENT : EnvAlignments,
     PRINTER_BOLD : flags, PRINTER_INVERSE : flags, PRINTER_FLIP : flags,
     PRINTER_DOUBLE_HEIGHT : flags, PRINTER_DOUBLE_WIDTH : flags]

\* os.getenv(name, default)
getenv(value, default) == IF value = "unset" THEN default ELSE value

\* bool(s) of a str: Python takes every string but the empty one as true
bool(s) == s # ""

\* ---- exceptions of the escpos library -----------------------------------
BarcodeErrors == {"BarcodeCodeError", "BarcodeSizeError", "BarcodeTypeError"}
ImageErrors == {"ImageWidthError", "ImageSizeError"}
\* any other exception a call on the handle raises (a dropped socket, ...)
DeviceError == "DeviceError"

VARIABLES
    env,          \* the PRINTER_* environment variables, fixed at process start
    startup,      \* the calls init_printer made to build and set up the handle
    printer,      \* POSPrinter_API.py: its global `printer`
    ini,          \* POSPrinter_API.py: the content of printer.ini
    pcMain,       \* where the __main__ block is
    PRINTER,      \* the process-wide handle: the class it was built from
    device,       \* what the connected printer answers a status query with
    devAlign,     \* the alignment the device currently prints with
    req,          \* req[i]: the i-th request received
    pc,           \* pc[i]: where the handler of request i is
    copy,         \* copy[i]: iterations of the copies loop already finished
    calls,        \* calls[i]: the calls request i made on the handle, in order
    resp,         \* resp[i]: the HTTP response of request i
    lastCaller,   \* the request that issued the latest print command
    interleaved   \* some request's commands were split by another request's

vars == <<env, startup, printer, ini, pcMain, PRINTER, device, devAlign, req, pc,
          copy, calls, resp, lastCaller, interleaved>>

\* The requests of one run, numbered as they arrive; their handlers may all
\* be running at once (two is the overlap the concurrency claims speak of).
Requests == {1, 2}

NoRequest == [kind |-> "none"]
NoResponse == [code |-> 0, key |-> "none", text |-> ""]

\* ---- models.py: the request models and their Field constraints -----------
\* faulty variant: the `le=16` of Payload.size left out
ValidPayload_no_upper_size(p) == p.copies >= 1 /\ p.size >= 1

ValidPayload(p) == p.copies >= 1 /\ p.size >= 1 /\ p.size <= 16

ValidBarcode(b) ==
    /\ b.height >= 1 /\ b.height <= 255
    /\ b.width >= 2 /\ b.width <= 6
    /\ b.copies >= 1

ValidImageSettings(s) == s.copies >= 1

\* The requests clients send.  Those that pass validation range over every
\* combination of the fields below; those that fail it are the example
\* request of each model's json_schema_extra with one field out of range.
PayloadExample ==
    [kind |-> "print", content |-> "Content to print", copies |-> 1, cut |-> TRUE,
     alignment |-> "left", qr |-> FALSE, size |-> 8]

Payloads ==
    [kind : {"print"}, content : {"Content to print"}, copies : 1..MaxCopies,
     cut : BOOLEAN, alignment : Alignments, qr : {FALSE}, size : {8}]
    \cup
    [kind : {"print"}, content : {"Content to print"}, copies : 1..MaxCopies,
     cut : {FALSE}, alignment : Alignments, qr : {TRUE}, size : {16}]
    \cup
    {[PayloadExample EXCEPT !.qr = TRUE, !.size = 1]}
    \cup
    {[PayloadExample EXCEPT !.copies = n] : n \in {-1, 0}}
    \cup
    {[PayloadExample EXCEPT !.qr = TRUE, !.size = n] : n \in {0, 17}}

BarcodeExample ==
    [kind |-> "barcode", code |-> "123456789012", type |-> "EAN13", height |-> 64,
     width |-> 3, position |-> "below", center |-> FALSE, copies |-> 1, cut |-> TRUE]

Barcodes ==
    {[BarcodeExample EXCEPT !.copies = n, !.cut = c] : n \in 1..MaxCopies, c \in BOOLEAN}
    \cup
    {[BarcodeExample EXCEPT !.height = d[1], !.width = d[2]] : d \in {<<1, 2>>, <<255, 6>>}}
    \cup
    {[BarcodeExample EXCEPT !.copies = n] : n \in {-1, 0}}
    \cup
    {[BarcodeExample EXCEPT !.height = n] : n \in {0, 256}}
    \cup
    {[BarcodeExample EXCEPT !.width = n] : n \in {1, 7}}

\* ImageSettings together with the declared content type of the upload.
ImageExample ==
    [kind |-> "image", content_type |-> "image/png", high_density_vertical |-> TRUE,
     high_density_horizontal |-> TRUE, impl |-> "bitImageRaster", center |-> FALSE,
     copies |-> 1, cut |-> TRUE]

ImageRequests ==
    {[ImageExample EXCEPT !.copies = n, !.cut = c] : n \in 1..MaxCopies, c \in BOOLEAN}
    \cup
    {[ImageExample EXCEPT !.content_type = t] : t \in {"image/jpeg", "image/tiff"}}
    \cup
    {[ImageExample EXCEPT !.content_type = "image/tiff", !.copies = MaxCopies, !.cut = FALSE]}
    \cup
    {[ImageExample EXCEPT !.copies = n] : n \in {-1, 0}}

CutRequests == {[kind |-> "cut"]}
RootRequests == {[kind |-> "root"]}

AllRequests == Payloads \cup Barcodes \cup ImageRequests \cup CutRequests \cup RootRequests

\* What FastAPI's parameter validation decides before it calls the handler.
Validates(r) ==
    CASE r.kind = "print" -> ValidPayload(r)
      [] r.kind = "barcode" -> ValidBarcode(r)
      [] r.kind = "image" -> ValidImageSettings(r)
      [] OTHER -> TRUE

\* ---- responses ----------------------------------------------------------
\* key is the field of the JSON body that carries the text ("none": no JSON body)
Json(code, key, text) == [code |-> code, key |-> key, text |-> text]

NotInitialized == Json(400, "error", "Printer not initialized")
\* the framework's answer to a request its parameter validation rejects
ValidationError == Json(422, "detail", "validation error")
\* the framework's answer when the handler raised and nothing caught it
InternalServerError == Json(500, "none", "Internal Server Error")

\* ---- the handle ---------------------------------------------------------
\* One call on the handle as the device sees it, with how it ended:
\* "ok" (for is_online: "online"/"offline"), or the exception it raised.
Call(op, arg, out) == [op |-> op, arg |-> arg, out |-> out]

Raised(c) == c.out \notin {"ok", "online", "offline"}

IsCommand(c) == c.op # "is_online"

Commands(i) == SelectSeq(calls[i], IsCommand)

\* PRINTER.is_online(): the Dummy class has no read channel, so the status
\* query raises NotImplementedError; a connected class gives the printer's
\* answer (NotImplementedError too where the transport cannot read), or the
\* transport fails under it.
is_online(handle, answer) ==
    IF handle = "Dummy" THEN {"NotImplementedError"} ELSE {answer, DeviceError}

\* every other call: it returns, or the transport fails under it
Plain == {"ok", DeviceError}

\* Request i calls the handle: the call is recorded, and a print command
\* that lands between two commands of another request splits them.
Invoke(i, c) ==
    /\ calls' = [calls EXCEPT ![i] = Append(@, c)]
    /\ IF IsCommand(c)
       THEN /\ lastCaller' = i
            /\ interleaved' = (interleaved \/ (lastCaller # i /\ Commands(i) # <<>>))
       ELSE UNCHANGED <<lastCaller, interleaved>>

Goto(i, label) == pc' = [pc EXCEPT ![i] = label] /\ resp' = resp

Finish(i, r) == pc' = [pc EXCEPT ![i] = "done"] /\ resp' = [resp EXCEPT ![i] = r]

\* faulty variant: the except branch returns True as well
check_printer_initialized_always(out) == TRUE

\* check_printer_initialized(): the value it returns when is_online() ended
\* with `out` (an `out` other than NotImplementedError that is an exception
\* is not caught here: see Escapes).
check_printer_initialized(out) == out # "NotImplementedError"

\* is_online() raised something check_printer_initialized does not catch
Escapes(out) == out = DeviceError


\* ---- startup: __main__ and init_printer ---------------------------------
\* POSPrinter_API.py: the global `printer` before anything binds it, a
\* `printer` that is None, and a printer.ini that does not exist
Unbound == [ip |-> "unbound", profile |-> "unbound"]
None == [ip |-> "None", profile |-> "None"]
NoIni == [Name |-> "none", IP |-> "none", Profile |-> "none"]

\* the process before __main__ has done anything, and no request yet
Fresh ==
    /\ startup = <<>>
    /\ printer = Unbound
    /\ pcMain = "start"
    /\ PRINTER = "Dummy"
    /\ device = "none"
    /\ devAlign = "unknown"
    /\ req = [i \in Requests |-> NoRequest]
    /\ pc = [i \in Requests |-> "idle"]
    /\ copy = [i \in Requests |-> 0]
    /\ calls = [i \in Requests |-> <<>>]
    /\ resp = [i \in Requests |-> NoResponse]
    /\ lastCaller = 0
    /\ interleaved = FALSE

\* The service as a whole: the boolean options keep their defaults.
Init == env \in Environments(EnvPrinterTypes, {"unset"}) /\ ini = NoIni /\ Fresh

\* The startup alone, under every environment.
InitStartup ==
    env \in Environments(StartupPrinterTypes, EnvFlags) /\ ini = NoIni /\ Fresh

\* faulty variant: `case _` logs the error and does not raise
match_type_no_exit(t) ==
    CASE t = "network" -> "Network"
      [] t = "usb" -> "Usb"
      [] t = "serial" -> "Serial"
      [] OTHER -> "Dummy"

\* `match os.getenv('PRINTER_TYPE')`: the class the matching case builds the
\* handle from, or the SystemExit that `case _` raises
match_type(t) ==
    CASE t = "network" -> "Network"
      [] t = "usb" -> "Usb"
      [] t = "serial" -> "Serial"
      [] OTHER -> "SystemExit"

\* the alignment the process is configured with
DefaultAlignment == getenv(env.PRINTER_ALIGNMENT, "left")

\* the exception the `try` around each constructor catches (`case _` calls
\* no constructor, so nothing is raised there)
connect_error(t) ==
    CASE t = "network" -> "ConnectionRefusedError"
      [] t = "usb" -> "USBNotFoundError"
      [] t = "serial" -> "SerialException"
      [] OTHER -> "ok"

\* faulty variant: the constructors are called outside any try
connect_except_none(t, e) == FALSE

\* is exception e of the constructor caught by the except clause of case t
connect_except(t, e) == e = connect_error(t)

\* the keyword arguments of the PRINTER.set(...) of init_printer that depend
\* on the environment and that the device shows in its output
DefaultOptions ==
    [align |-> DefaultAlignment,
     bold |-> bool(getenv(env.PRINTER_BOLD, "False")),
     invert |-> bool(getenv(env.PRINTER_INVERSE, "False")),
     flip |-> bool(getenv(env.PRINTER_FLIP, "False")),
     double_height |-> bool(getenv(env.PRINTER_DOUBLE_HEIGHT, "False")),
     double_width |-> bool(getenv(env.PRINTER_DOUBLE_WIDTH, "False"))]

\* init_printer() ended with an exception: __main__ never reaches uvicorn.run
Crash(log) ==
    /\ pcMain' = "crashed"
    /\ startup' = log
    /\ UNCHANGED devAlign

\* init_printer(), called once from __main__ before the server exists, so it
\* runs alone.  The constructor of the matching case returns ("ok"), raises
\* the exception its `try` catches (PRINTER stays the Dummy of __main__), or
\* raises another one.  Then the probe, whose answer is only logged, and the
\* one PRINTER.set(...) with all the defaults: it returns, or it raises
\* NotSupported when it looks the font up in the capability profile, which
\* it does before it writes the alignment; nothing applies the options the
\* call had not reached.
init_printer ==
    /\ pcMain = "start"
    /\ UNCHANGED <<env, printer, ini, req, pc, copy, calls, resp, lastCaller, interleaved>>
    /\ IF match_type(env.PRINTER_TYPE) = "SystemExit"
       THEN \* the process ends before __main__ reaches uvicorn.run
            /\ pcMain' = "exited"
            /\ UNCHANGED <<startup, PRINTER, device, devAlign>>
       ELSE \E e \in {"ok", connect_error(env.PRINTER_TYPE), DeviceError} :
            LET opened == <<Call(match_type(env.PRINTER_TYPE), <<>>, e)>> IN
            IF e # "ok" /\ ~connect_except(env.PRINTER_TYPE, e)
            THEN Crash(opened) /\ UNCHANGED <<PRINTER, device>>
            ELSE /\ PRINTER' = IF e = "ok" THEN match_type(env.PRINTER_TYPE) ELSE PRINTER
                 /\ IF e = "ok" THEN device' \in {"online", "offline", "NotImplementedError"}
                    ELSE UNCHANGED device
                 /\ \E probe \in is_online(PRINTER', device') :
                    LET probed == Append(opened, Call("is_online", <<>>, probe)) IN
                    IF Escapes(probe) \/ DefaultAlignment \notin Alignments
                    THEN \* the probe raised, or Alignments(...) raised ValueError
                         Crash(probed)
                    ELSE \E set \in {"ok", "NotSupported"} :
                         /\ pcMain' = "initialized"
                         /\ startup' = Append(probed, Call("set", DefaultOptions, set))
                         /\ devAlign' = IF set = "ok" THEN DefaultAlignment ELSE devAlign

\* uvicorn.run(app, ...): from here on requests are handled
uvicorn_run ==
    /\ pcMain = "initialized"
    /\ pcMain' = "serving"
    /\ UNCHANGED <<env, startup, printer, ini, PRINTER, device, devAlign, req, pc, copy,
                   calls, resp, lastCaller, interleaved>>

\* ---- a request arrives ---------------------------------------------------
\* Requests are numbered in the order they arrive.  The framework validates
\* the parameters and calls the handler only with a valid model.
Receive(i) ==
    /\ pcMain = "serving"
    /\ pc[i] = "idle"
    /\ \A j \in 1..(i - 1) : pc[j] # "idle"
    /\ \E r \in AllRequests :
       /\ req' = [req EXCEPT ![i] = r]
       /\ IF Validates(r) THEN Goto(i, "check") ELSE Finish(i, ValidationError)
    /\ UNCHANGED <<env, startup, printer, ini, pcMain, PRINTER, device, devAlign, copy, calls, lastCaller, interleaved>>

\* ---- what the handlers share ----------------------------------------------
\* faulty variant: the loop runs one round too many
more_copies_one_more(r, done) == done < r.copies

\* `for _ in range(<request>.copies)`: is there another round after the
\* `done` rounds finished and the one that is ending
more_copies(r, done) == done + 1 < r.copies

\* the end of one round of the copies loop; `after` is what follows the loop
EndCopy(i, after) ==
    /\ copy' = [copy EXCEPT ![i] = @ + 1]
    /\ IF more_copies(req[i], copy[i]) THEN Goto(i, "emit") ELSE after

\* the first step of every handler: `if not check_printer_initialized():`
\* notReady is the handler's answer then, whenReady how it goes on otherwise
Check(i, notReady, whenReady) ==
    /\ pc[i] = "check"
    /\ \E out \in is_online(PRINTER, device) :
       /\ Invoke(i, Call("is_online", <<>>, out))
       /\ IF Escapes(out) THEN Finish(i, InternalServerError)
          ELSE IF ~check_printer_initialized(out) THEN Finish(i, notReady)
          ELSE whenReady
    /\ UNCHANGED <<env, startup, printer, ini, pcMain, PRINTER, device, devAlign, req, copy>>

\* `if <request>.cut: PRINTER.cut()`, the last statement of a round
Cut(i, after) ==
    /\ pc[i] = "cut"
    /\ \E out \in Plain :
       /\ Invoke(i, Call("cut", <<>>, out))
       /\ IF out = "ok" THEN EndCopy(i, after)
          ELSE Finish(i, InternalServerError) /\ UNCHANGED copy
    /\ UNCHANGED <<env, startup, printer, ini, pcMain, PRINTER, device, devAlign, req>>

\* ---- POST /print/ ----------------------------------------------------------
\* faulty variant: everything but left alignment centers the code
qr_center_unless_left(p) == p.alignment # "left"

\* center = bool(payload.alignment == Alignments.CENTER)
qr_center(p) == p.alignment = "center"

\* the emission of one copy: PRINTER.text(...) or PRINTER.qr(...)
Emission(p, out) ==
    IF ~p.qr THEN Call("text", <<p.content \o "\n">>, out)
    ELSE Call("qr", <<p.content, p.size, qr_center(p)>>, out)

ContentPrinted == Json(200, "status", "Content Printed")

print_text(i) ==
    /\ req[i].kind = "print"
    /\ \/ Check(i, NotInitialized, Goto(i, "set_align"))
       \/ \* PRINTER.set(align=payload.alignment)
          /\ pc[i] = "set_align"
          /\ \E out \in Plain :
             /\ Invoke(i, Call("set", <<req[i].alignment>>, out))
             /\ IF out = "ok"
                THEN devAlign' = req[i].alignment /\ Goto(i, "emit")
                ELSE UNCHANGED devAlign /\ Finish(i, InternalServerError)
          /\ UNCHANGED <<env, startup, printer, ini, pcMain, PRINTER, device, req, copy>>
       \/ \* PRINTER.text(payload.content + "\n") or PRINTER.qr(...)
          /\ pc[i] = "emit"
          /\ \E out \in Plain :
             /\ Invoke(i, Emission(req[i], out))
             /\ IF out # "ok" THEN Finish(i, InternalServerError) /\ UNCHANGED copy
                ELSE IF req[i].cut THEN Goto(i, "cut") /\ UNCHANGED copy
                ELSE EndCopy(i, Goto(i, "reset"))
          /\ UNCHANGED <<env, startup, printer, ini, pcMain, PRINTER, device, devAlign, req>>
       \/ Cut(i, Goto(i, "reset"))
       \/ \* PRINTER.set(align=os.getenv('PRINTER_ALIGNMENT', 'left'))
          /\ pc[i] = "reset"
          /\ \E out \in Plain :
             /\ Invoke(i, Call("set", <<DefaultAlignment>>, out))
             /\ IF out = "ok"
                THEN devAlign' = DefaultAlignment /\ Finish(i, ContentPrinted)
                ELSE UNCHANGED devAlign /\ Finish(i, InternalServerError)
          /\ UNCHANGED <<env, startup, printer, ini, pcMain, PRINTER, device, req, copy>>

\* ---- POST /barcode/ --------------------------------------------------------
BarcodePrinted == Json(200, "status", "Barcode Printed")

\* faulty variant: the except clause swallows the error and reports success
barcode_except_swallow(e) ==
    IF e \in BarcodeErrors THEN BarcodePrinted ELSE InternalServerError

\* the `except (BarcodeCodeError, BarcodeSizeError, BarcodeTypeError) as e`
\* around the loop: the answer to exception e raised inside it
barcode_except(e) ==
    IF e \in BarcodeErrors THEN Json(400, "error", "Barcode printing error: " \o e)
    ELSE InternalServerError

print_barcode(i) ==
    /\ req[i].kind = "barcode"
    /\ \/ Check(i, NotInitialized, Goto(i, "emit"))
       \/ \* PRINTER.barcode(code, type, height=, width=, align_ct=)
          /\ pc[i] = "emit"
          /\ \E out \in {"ok", DeviceError} \cup BarcodeErrors :
             /\ Invoke(i, Call("barcode", <<req[i].code, req[i].type, req[i].height,
                                           req[i].width, req[i].center>>, out))
             /\ IF out # "ok" THEN Finish(i, barcode_except(out)) /\ UNCHANGED copy
                ELSE IF req[i].cut THEN Goto(i, "cut") /\ UNCHANGED copy
                ELSE EndCopy(i, Finish(i, BarcodePrinted))
          /\ UNCHANGED <<env, startup, printer, ini, pcMain, PRINTER, device, devAlign, req>>
       \/ Cut(i, Finish(i, BarcodePrinted))

\* ---- POST /image/ ----------------------------------------------------------
ImagePrinted == Json(200, "status", "Image Printed")

UnsupportedFormat ==
    Json(400, "error", "Unsupported image format. Supported formats are PNG, JPG, BMP, GIF.")

\* faulty variant: TIFF uploads are let through
AcceptedContentTypes_with_tiff ==
    {"image/png", "image/gif", "image/bmp", "image/jpg", "image/tiff"}

\* `file.content_type not in [...]`
AcceptedContentTypes == {"image/png", "image/gif", "image/bmp", "image/jpg"}

\* the `except (ImageWidthError, ImageSizeError) as e` around the loop
image_except(e) ==
    IF e \in ImageErrors THEN Json(400, "error", "Image printing error: " \o e)
    ELSE InternalServerError

\* After the readiness check: the content type test, then Image.open(file.file),
\* which decodes the upload or raises; neither touches the handle.
print_image(i) ==
    /\ req[i].kind = "image"
    /\ \/ Check(i, NotInitialized,
                IF req[i].content_type \notin AcceptedContentTypes
                THEN Finish(i, UnsupportedFormat)
                ELSE \E decoded \in BOOLEAN :
                        IF decoded THEN Goto(i, "emit") ELSE Finish(i, InternalServerError))
       \/ \* PRINTER.image(image, high_density_vertical=, ..., impl=, center=)
          /\ pc[i] = "emit"
          /\ \E out \in {"ok", DeviceError} \cup ImageErrors :
             /\ Invoke(i, Call("image", <<req[i].high_density_vertical,
                                         req[i].high_density_horizontal,
                                         req[i].impl, req[i].center>>, out))
             /\ IF out # "ok" THEN Finish(i, image_except(out)) /\ UNCHANGED copy
                ELSE IF req[i].cut THEN Goto(i, "cut") /\ UNCHANGED copy
                ELSE EndCopy(i, Finish(i, ImagePrinted))
          /\ UNCHANGED <<env, startup, printer, ini, pcMain, PRINTER, device, devAlign, req>>
       \/ Cut(i, Finish(i, ImagePrinted))

\* ---- POST /cut/ ------------------------------------------------------------
PaperCut == Json(200, "status", "Paper Cut")

cut_paper(i) ==
    /\ req[i].kind = "cut"
    /\ \/ Check(i, NotInitialized, Goto(i, "cut"))
       \/ /\ pc[i] = "cut"
          /\ \E out \in Plain :
             /\ Invoke(i, Call("cut", <<>>, out))
             /\ Finish(i, IF out = "ok" THEN PaperCut ELSE InternalServerError)
          /\ UNCHANGED <<env, startup, printer, ini, pcMain, PRINTER, device, devAlign, req, copy>>

\* ---- GET / -----------------------------------------------------------------
root(i) ==
    /\ req[i].kind = "root"
    /\ Check(i, Json(400, "message", "Printer API is running, but no printer is initialized"),
             Finish(i, Json(200, "message", "Printer API is running")))

\* ---- the system ------------------------------------------------------------
Next ==
    \/ init_printer
    \/ uvicorn_run
    \/ \E i \in Requests : Receive(i)
    \/ \E i \in Requests : print_text(i)
    \/ \E i \in Requests : print_barcode(i)
    \/ \E i \in Requests : print_image(i)
    \/ \E i \in Requests : cut_paper(i)
    \/ \E i \in Requests : root(i)

Spec == Init /\ [][Next]_vars

\* ---- the startup alone ------------------------------------------------------
NextStartup ==
    \/ init_printer
    \/ uvicorn_run

SpecStartup == InitStartup /\ [][NextStartup]_vars

\* ---- POSPrinter_API.py -------------------------------------------------------
\* The revision with /initialize/, /print_text/ and /print_qr/.  Its handle is
\* the global `printer`, which the module never binds at import: it is bound
\* by __main__ when printer.ini exists, and by every POST /initialize/.
POSPrinter_API_PayloadExample ==
    [kind |-> "print_text", content |-> "Content to print", copies |-> 1, size |-> 8,
     cut |-> TRUE]

\* class Payload: copies ge=1, size ge=1 le=16
POSPrinter_API_Payloads ==
    [kind : {"print_text", "print_qr"}, content : {"Content to print"},
     copies : 1..MaxCopies, size : {8}, cut : BOOLEAN]
    \cup
    {[POSPrinter_API_PayloadExample EXCEPT !.kind = k, !.copies = 0] :
        k \in {"print_text", "print_qr"}}
    \cup
    {[POSPrinter_API_PayloadExample EXCEPT !.kind = "print_qr", !.size = n] : n \in {0, 17}}

\* class Printer ("none": the field is null)
Printers ==
    [kind : {"initialize"}, name : {"My Printer", "none"},
     ip : {"192.168.1.2", "192.168.1.3"}, profile : {"TM-T88V", "none"}]

POSPrinter_API_Requests == POSPrinter_API_Payloads \cup Printers \cup RootRequests

POSPrinter_API_Validates(r) ==
    r.kind \in {"print_text", "print_qr"} => ValidPayload(r)

\* Network(ip, profile=...): the handle it builds
Network(ip, profile) == [ip |-> ip, profile |-> profile]

\* printer.ini as initialize_printer writes it (Profile only when given)
PrinterIni(p) == [Name |-> p.name, IP |-> p.ip, Profile |-> p.profile]

InitAPI ==
    /\ env \in Environments({"unset"}, {"unset"})
    /\ env.PRINTER_ALIGNMENT = "unset"
    /\ ini \in {NoIni} \cup {PrinterIni(p) : p \in {q \in Printers : q.name # "none"}}
    /\ Fresh

\* __main__: with a printer.ini the handle is built from it (config.get raises
\* NoOptionError when the file has no Profile, the constructor may raise);
\* then uvicorn.run
POSPrinter_API_main ==
    /\ pcMain = "start"
    /\ IF ini = NoIni THEN pcMain' = "serving" /\ UNCHANGED printer
       ELSE IF ini.Profile = "none" THEN pcMain' = "crashed" /\ UNCHANGED printer
       ELSE \E e \in Plain :
            IF e = "ok" THEN pcMain' = "serving" /\ printer' = Network(ini.IP, ini.Profile)
            ELSE pcMain' = "crashed" /\ UNCHANGED printer
    /\ UNCHANGED <<env, startup, ini, PRINTER, device, devAlign, req, pc, copy, calls,
                   resp, lastCaller, interleaved>>

POSPrinter_API_Receive(i) ==
    /\ pcMain = "serving"
    /\ pc[i] = "idle"
    /\ \A j \in 1..(i - 1) : pc[j] # "idle"
    /\ \E r \in POSPrinter_API_Requests :
       /\ req' = [req EXCEPT ![i] = r]
       /\ IF POSPrinter_API_Validates(r) THEN Goto(i, "check")
          ELSE Finish(i, ValidationError)
    /\ UNCHANGED <<env, startup, printer, ini, pcMain, PRINTER, device, devAlign, copy,
                   calls, lastCaller, interleaved>>

\* POST /initialize/: a new handle replaces the global one, then the settings
\* are saved (config.set raises TypeError for a null name)
initialize_printer(i) ==
    /\ req[i].kind = "initialize"
    /\ pc[i] = "check"
    /\ \E e \in Plain :
       /\ calls' = [calls EXCEPT ![i] =
                        Append(@, Call("Network", <<req[i].ip, req[i].profile>>, e))]
       /\ IF e # "ok"
          THEN Finish(i, InternalServerError) /\ UNCHANGED <<printer, ini>>
          ELSE /\ printer' = Network(req[i].ip, req[i].profile)
               /\ IF req[i].name = "none"
                  THEN Finish(i, InternalServerError) /\ UNCHANGED ini
                  ELSE /\ ini' = PrinterIni(req[i])
                       /\ Finish(i, Json(201, "status", "Printer Initialized"))
    /\ UNCHANGED <<env, startup, pcMain, PRINTER, device, devAlign, req, copy, lastCaller,
                   interleaved>>

\* `if not printer: return {"error": "Printer not initialized"}`: reading the
\* unbound global raises NameError; a handle object is true
POSPrinter_API_check(i) ==
    /\ pc[i] = "check"
    /\ IF printer = Unbound THEN Finish(i, InternalServerError)
       ELSE IF printer = None THEN Finish(i, Json(200, "error", "Printer not initialized"))
       ELSE Goto(i, "emit")
    /\ UNCHANGED <<env, startup, printer, ini, pcMain, PRINTER, device, devAlign, req, copy,
                   calls, lastCaller, interleaved>>

\* one round of `for _ in range(payload.copies)`: the emission, then the cut
POSPrinter_API_emit(i, op, arg, printed) ==
    /\ pc[i] = "emit"
    /\ \E out \in Plain :
       /\ Invoke(i, Call(op, arg, out))
       /\ IF out # "ok" THEN Finish(i, InternalServerError) /\ UNCHANGED copy
          ELSE IF req[i].cut THEN Goto(i, "cut") /\ UNCHANGED copy
          ELSE EndCopy(i, Finish(i, printed))
    /\ UNCHANGED <<env, startup, printer, ini, pcMain, PRINTER, device, devAlign, req>>

POSPrinter_API_print_text(i) ==
    /\ req[i].kind = "print_text"
    /\ \/ POSPrinter_API_check(i)
       \/ POSPrinter_API_emit(i, "text", <<req[i].content \o "\n">>,
                               Json(200, "status", "Text printed"))
       \/ Cut(i, Finish(i, Json(200, "status", "Text printed")))

\* (the `if not 1 <= payload.size <= 16` of the handler never holds for a
\* payload that passed validation)
POSPrinter_API_print_qr(i) ==
    /\ req[i].kind = "print_qr"
    /\ \/ POSPrinter_API_check(i)
       \/ POSPrinter_API_emit(i, "qr", <<req[i].content, req[i].size>>,
                               Json(200, "status", "QR code printed"))
       \/ Cut(i, Finish(i, Json(200, "status", "QR code printed")))

POSPrinter_API_root(i) ==
    /\ req[i].kind = "root"
    /\ pc[i] = "check"
    /\ Finish(i, Json(200, "message", "Printer API is running"))
    /\ UNCHANGED <<env, startup, printer, ini, pcMain, PRINTER, device, devAlign, req, copy,
                   calls, lastCaller, interleaved>>

NextAPI ==
    \/ POSPrinter_API_main
    \/ \E i \in Requests : POSPrinter_API_Receive(i)
    \/ \E i \in Requests : initialize_printer(i)
    \/ \E i \in Requests : POSPrinter_API_print_text(i)
    \/ \E i \in Requests : POSPrinter_API_print_qr(i)
    \/ \E i \in Requests : POSPrinter_API_root(i)

SpecAPI == InitAPI /\ [][NextAPI]_vars


\* ---- properties ------------------------------------------------------------
PrintCapable == {"print", "barcode", "image", "cut"}

\* request i reached its handler and none of its calls on the handle raised
AllCallsOk(i) == calls[i] # <<>> /\ \A k \in DOMAIN calls[i] : ~Raised(calls[i][k])

IsTextOrCut(c) == c.op \in {"text", "cut"}
IsQr(c) == c.op = "qr"
IsText(c) == c.op = "text"

\* text, cut, text, cut, ... for p.copies copies (text, text, ... without cut)
TextRounds(p) ==
    [j \in 1..(p.copies * (IF p.cut THEN 2 ELSE 1)) |->
        IF p.cut /\ j % 2 = 0 THEN Call("cut", <<>>, "ok")
        ELSE Call("text", <<p.content \o "\n">>, "ok")]

\* C1: a text print of n >= 1 copies on a ready session, all of whose device
\* calls succeed, emits exactly n text commands (content plus line terminator),
\* with a cut after each when cut is true (text, cut, text, cut, ...) and no
\* cut at all when it is false, and answers {status: "Content Printed"}.
C1_TextCopies ==
    \A i \in Requests :
        (req[i].kind = "print" /\ ~req[i].qr /\ pc[i] = "done" /\ AllCallsOk(i))
        => /\ SelectSeq(calls[i], IsTextOrCut) = TextRounds(req[i])
           /\ resp[i] = Json(200, "status", "Content Printed")

C1_Witness ==
    \E i \in Requests :
        /\ req[i].kind = "print" /\ ~req[i].qr /\ req[i].cut
        /\ req[i].copies = MaxCopies
        /\ pc[i] = "done" /\ AllCallsOk(i)
        /\ Len(SelectSeq(calls[i], IsText)) = MaxCopies

\* request i set the device to the alignment it asked for
SetOwnAlignment(i) ==
    /\ Commands(i) # <<>>
    /\ Commands(i)[1] = Call("set", <<req[i].alignment>>, "ok")

\* C2: once a text/QR request that set its alignment has completed, with
\* success or after a device call failed in the copies loop, the device
\* alignment is the process default (stated for runs in which no other
\* request has sent a command, so that only the request itself is in play).
C2_AlignmentReset ==
    \A i \in Requests :
        (/\ req[i].kind = "print" /\ pc[i] = "done" /\ SetOwnAlignment(i)
         /\ \A j \in Requests \ {i} : Commands(j) = <<>>)
        => devAlign = DefaultAlignment

\* C3: the commands of concurrently handled requests never interleave on the
\* device: each request's commands are contiguous in the order the device
\* sees them.
C3_Contiguous == ~interleaved

\* the session reported not-ready to request i
NotReady(i) == calls[i] # <<>> /\ calls[i][1].out = "NotImplementedError"

\* C4: when the session reports not-ready, a request to a print-capable
\* endpoint is answered 400 {error: "Printer not initialized"} and makes no
\* call on the device besides the liveness probe.
C4_NotReady ==
    \A i \in Requests :
        (req[i].kind \in PrintCapable /\ NotReady(i))
        => /\ pc[i] = "done"
           /\ resp[i] = Json(400, "error", "Printer not initialized")
           /\ Len(calls[i]) = 1

C4_Witness ==
    \E i, j \in Requests :
        /\ req[i].kind = "print" /\ req[j].kind = "cut"
        /\ NotReady(i) /\ NotReady(j)
        /\ pc[i] = "done" /\ pc[j] = "done"

\* C5: the session is ready only when the probe succeeds: a probe that
\* reports the printer offline, or that the transport does not support,
\* makes every print-capable endpoint answer "Printer not initialized"
\* without device I/O.
C5_ReadyOnlyWhenOnline ==
    \A i \in Requests :
        (/\ req[i].kind \in PrintCapable /\ calls[i] # <<>>
         /\ calls[i][1].out \in {"offline", "NotImplementedError"})
        => /\ pc[i] = "done"
           /\ resp[i] = Json(400, "error", "Printer not initialized")
           /\ Len(calls[i]) = 1

\* a field of request r is outside the range its model declares
OutOfRange(r) ==
    /\ r.kind \in {"print", "barcode", "image"}
    /\ \/ r.copies < 1
       \/ r.kind = "print" /\ (r.size < 1 \/ r.size > 16)
       \/ r.kind = "barcode" /\ (r.width < 2 \/ r.width > 6)
       \/ r.kind = "barcode" /\ (r.height < 1 \/ r.height > 255)

\* C6: a request with copies < 1, QR size outside 1..16, barcode width
\* outside 2..6 or barcode height outside 1..255 is rejected with a
\* validation error, and no call of any kind reaches the device for it.
C6_RejectedBeforeDevice ==
    \A i \in Requests :
        OutOfRange(req[i])
        => calls[i] = <<>> /\ pc[i] = "done" /\ resp[i].code = 422

C6_Witness ==
    \E i, j \in Requests :
        /\ req[i].kind = "print" /\ req[i].size = 17
        /\ req[j].kind = "barcode" /\ req[j].width = 1
        /\ resp[i].code = 422 /\ resp[j].code = 422

\* C7: every QR emission of a QR request carries the request's module size
\* and center = (alignment is center); a QR request that ran through
\* emitted the code once per copy.
C7_QrCenter ==
    \A i \in Requests :
        (req[i].kind = "print" /\ req[i].qr)
        => /\ \A k \in DOMAIN calls[i] :
                /\ calls[i][k].op # "text"
                /\ calls[i][k].op = "qr"
                   => calls[i][k].arg = <<req[i].content, req[i].size,
                                          req[i].alignment = "center">>
           /\ (pc[i] = "done" /\ AllCallsOk(i))
              => Len(SelectSeq(calls[i], IsQr)) = req[i].copies

C7_Witness ==
    \E i \in Requests :
        /\ req[i].kind = "print" /\ req[i].qr
        /\ req[i].alignment = "right" /\ req[i].copies = MaxCopies
        /\ pc[i] = "done" /\ AllCallsOk(i)
        /\ Len(SelectSeq(calls[i], IsQr)) = MaxCopies

\* the emission of one copy of a barcode or image request, as it succeeds
EmissionOk(r) ==
    IF r.kind = "barcode"
    THEN Call("barcode", <<r.code, r.type, r.height, r.width, r.center>>, "ok")
    ELSE Call("image", <<r.high_density_vertical, r.high_density_horizontal,
                         r.impl, r.center>>, "ok")

\* emission, cut, emission, cut, ... for r.copies copies
EmissionRounds(r) ==
    [j \in 1..(r.copies * (IF r.cut THEN 2 ELSE 1)) |->
        IF r.cut /\ j % 2 = 0 THEN Call("cut", <<>>, "ok") ELSE EmissionOk(r)]

\* call k of request i is a barcode or image emission the device rejected
Rejected(i, k) ==
    \/ calls[i][k].op = "barcode" /\ calls[i][k].out \in BarcodeErrors
    \/ calls[i][k].op = "image" /\ calls[i][k].out \in ImageErrors

RejectionAnswer(c) ==
    Json(400, "error",
         (IF c.op = "barcode" THEN "Barcode printing error: "
          ELSE "Image printing error: ") \o c.out)

\* C8: when the device rejects the barcode or image emission of copy k, the
\* request stops there: that call is its last (no cut for the copy, nothing
\* for the copies after it), the k-1 copies before it stand as emitted, each
\* once with its cut, and the answer is 400 with the device's message.
C8_AbortOnReject ==
    \A i \in Requests : \A k \in DOMAIN calls[i] :
        Rejected(i, k)
        => /\ k = Len(calls[i])
           /\ pc[i] = "done"
           /\ resp[i] = RejectionAnswer(calls[i][k])
           /\ k - 1 <= Len(EmissionRounds(req[i]))
           /\ EmissionRounds(req[i])[k - 1].op = calls[i][k].op
           /\ SubSeq(calls[i], 2, k - 1) = SubSeq(EmissionRounds(req[i]), 1, k - 2)

C8_Witness ==
    \E i \in Requests :
        /\ req[i].kind = "barcode" /\ req[i].cut /\ req[i].copies = MaxCopies
        /\ Len(calls[i]) = 2 * MaxCopies
        /\ Rejected(i, 2 * MaxCopies)
        /\ resp[i].code = 400

\* C9: no failure of a device call escapes the handler: a request one of
\* whose device calls raised is answered with a structured body, never with
\* the server error of an uncaught exception.
C9_NoEscape ==
    \A i \in Requests :
        (pc[i] = "done" /\ \E k \in DOMAIN calls[i] : Raised(calls[i][k]))
        => resp[i].code # 500 /\ resp[i].key # "none"

\* C10: with PRINTER_TYPE missing or not one of network, usb, serial, the
\* process never gets to serve: startup ends first and no request is handled.
C10_NoServingUnknownType ==
    env.PRINTER_TYPE \notin {"network", "usb", "serial"}
    => /\ pcMain \in {"start", "exited"}
       /\ \A i \in Requests : pc[i] = "idle"

C10_Witness == pcMain = "exited" /\ env.PRINTER_TYPE \in {"bluetooth", "unset"}

\* the constructor of init_printer raised the exception its case catches
ConnectFailed ==
    /\ startup # <<>>
    /\ startup[1].out # "ok"
    /\ startup[1].out = connect_error(env.PRINTER_TYPE)

ProbedReady(i) == calls[i] # <<>> /\ calls[i][1].out \in {"online", "offline"}

TiffLike(r) ==
    /\ r.kind = "image"
    /\ r.content_type \notin {"image/png", "image/gif", "image/bmp", "image/jpg"}

C13_HandleNeverReplaced ==
    [][pcMain = "serving" => (printer' = printer /\ PRINTER' = PRINTER)]_vars

\* C14: when the PRINTER.set(...) of startup raises NotSupported, startup goes
\* on to serving and the defaults other than the unsupported one are on the
\* device: the alignment is the configured default.
C14_DefaultsApplied ==
    (Len(startup) = 3 /\ startup[3].out = "NotSupported")
    => /\ pcMain \in {"initialized", "serving"}
       /\ devAlign = DefaultAlignment

\* C15: in POSPrinter_API.py a valid /print_text/ or /print_qr/ request, none
\* of whose device calls failed, is answered 200 in every state of the
\* service; when nothing was printed for it because no printer is
\* initialized, the body is {error: "Printer not initialized"}.
C15_Always200 ==
    \A i \in Requests :
        (/\ req[i].kind \in {"print_text", "print_qr"} /\ ValidPayload(req[i])
         /\ pc[i] = "done"
         /\ \A k \in DOMAIN calls[i] : ~Raised(calls[i][k]))
        => /\ resp[i].code = 200
           /\ calls[i] = <<>> => resp[i] = Json(200, "error", "Printer not initialized")

\* C16: GET / is answered 200 whether the session is ready or degraded (the
\* probe itself not failing), and sends no print, cut or alignment command.
C16_RootAlways200 ==
    \A i \in Requests :
        (/\ req[i].kind = "root" /\ pc[i] = "done"
         /\ calls[i] # <<>> /\ calls[i][1].out # DeviceError)
        => resp[i].code = 200 /\ Commands(i) = <<>>

\* the call request i makes on the handle in this step
Sent(i) == calls'[i][Len(calls'[i])]

\* request i sends a text or QR emission in this step
Emits(i) ==
    /\ Len(calls'[i]) = Len(calls[i]) + 1
    /\ Sent(i).op \in {"text", "qr"}

\* a barcode, image or cut request sends its first command in this step
Starts(i) ==
    /\ req[i].kind \in {"barcode", "image", "cut"}
    /\ Len(calls'[i]) = Len(calls[i]) + 1
    /\ IsCommand(Sent(i))
    /\ Commands(i) = <<>>

\* startup applied the defaults and no call on the handle has raised since
Undisturbed ==
    /\ Len(startup) = 3 /\ startup[3].out = "ok"
    /\ \A i \in Requests : \A k \in DOMAIN calls[i] :
        calls[i][k].out \in {"ok", "online", "offline"}

\* C17: alignment never leaks between requests: every text or QR emission
\* happens while the device alignment is the one its request asked for, and
\* every barcode, image or cut request starts with the device at the process
\* default (with the defaults applied at startup and no device call failing,
\* so that only the interleaving of the requests is in play).
C17_NoAlignmentLeak ==
    [][Undisturbed =>
        \A i \in Requests :
            /\ Emits(i) => devAlign = req[i].alignment
            /\ Starts(i) => devAlign = DefaultAlignment]_vars

\* C18: each boolean default passed to PRINTER.set(...) at startup is true
\* exactly when its environment variable is configured true, so false when
\* the variable is unset or is "False".
C18_FlagsMatch ==
    Len(startup) = 3
    => /\ startup[3].arg.bold = (env.PRINTER_BOLD = "True")
       /\ startup[3].arg.invert = (env.PRINTER_INVERSE = "True")
       /\ startup[3].arg.flip = (env.PRINTER_FLIP = "True")
       /\ startup[3].arg.double_height = (env.PRINTER_DOUBLE_HEIGHT = "True")
       /\ startup[3].arg.double_width = (env.PRINTER_DOUBLE_WIDTH = "True")

====
